---- MODULE Spec2Model ----
(***************************************************************************)
(* combine-transactions.py: merge two unconfirmed opt-in transactions of   *)
(* the wallet into one replacement transaction.                            *)
(*                                                                         *)
(* The script is one straight-line run against a bitcoind node.  The model *)
(* has one action per stage of the script (pc is the stage about to run),  *)
(* and the node's answers are read from the record `node`, which is fixed  *)
(* when the run starts.                                                    *)
(*                                                                         *)
(* Amounts the node reports in BTC (modifiedfee, relayfee) are held as the *)
(* number of satoshis, so `x * COIN` followed by int() is that number.     *)
(* Python numbers that can become floats (new_tx_fee and the nValue of the *)
(* outputs of new_tx) are held exactly as (-1)^neg * n * 2^e; every float  *)
(* operation computes the exact result and rounds it to binary64 (53       *)
(* significant bits, round to nearest, ties to even).  Exponent overflow   *)
(* and subnormals do not arise for satoshi amounts and byte sizes.         *)
(***************************************************************************)
EXTENDS Integers, Sequences, FiniteSets, TLC

\* ------------------------------------------------------------ constants

\* A 32-bit sequence number is the pair <<high 16 bits, low 16 bits>> (the
\* model checker's integers are 32-bit signed); SEQ_MAX is 0xFFFFFFFF.
HALF_MAX == 65535
SEQ_MAX == <<HALF_MAX, HALF_MAX>>
U32(x) == <<0, x>>
U32Lt(a, b) == a[1] < b[1] \/ (a[1] = b[1] /\ a[2] < b[2])
U32Minus(a, k) ==
    IF a[2] >= k THEN <<a[1], a[2] - k>> ELSE <<a[1] - 1, a[2] + HALF_MAX + 1 - k>>
TXID_LEN == 32
KB == 1000

\* ------------------------------------------------------------ bounds

MaxVin == 2
MaxVout == 2
MaxValue == 2
MaxFee == 2
MaxSize == 4
MaxChange == 4
MaxRelaySize == 9
MaxExtra == 1
MaxConf == 1

\* ------------------------------------------------------------ naturals

\* A natural number is the sequence of its limbs, least significant first,
\* with no zero limb at the top; <<>> is 0.  Limb products stay below 2^31.
LimbBits == 15
Limb == 2^LimbBits

Abs(x) == IF x < 0 THEN -x ELSE x
Min(a, b) == IF a < b THEN a ELSE b

RECURSIVE NTrim(_)
NTrim(a) ==
    IF a # <<>> /\ a[Len(a)] = 0 THEN NTrim(SubSeq(a, 1, Len(a) - 1)) ELSE a

RECURSIVE NFromInt(_)
NFromInt(x) == IF x = 0 THEN <<>> ELSE <<x % Limb>> \o NFromInt(x \div Limb)

RECURSIVE NToInt(_)
NToInt(a) == IF a = <<>> THEN 0 ELSE Head(a) + Limb * NToInt(Tail(a))

Digit(a, i) == IF i <= Len(a) THEN a[i] ELSE 0

\* a + b + c from limb i on
RECURSIVE NAddFrom(_, _, _, _)
NAddFrom(a, b, i, c) ==
    IF i > Len(a) /\ i > Len(b) THEN (IF c = 0 THEN <<>> ELSE <<c>>)
    ELSE LET s == Digit(a, i) + Digit(b, i) + c
         IN  <<s % Limb>> \o NAddFrom(a, b, i + 1, s \div Limb)

NAdd(a, b) == NAddFrom(a, b, 1, 0)

\* a - b - c from limb i on, for a >= b
RECURSIVE NSubFrom(_, _, _, _)
NSubFrom(a, b, i, c) ==
    IF i > Len(a) THEN <<>>
    ELSE LET s == Digit(a, i) - Digit(b, i) - c
         IN  <<IF s < 0 THEN s + Limb ELSE s>>
             \o NSubFrom(a, b, i + 1, IF s < 0 THEN 1 ELSE 0)

NSub(a, b) == NTrim(NSubFrom(a, b, 1, 0))

RECURSIVE NLtFrom(_, _, _)
NLtFrom(a, b, i) ==
    IF i = 0 THEN FALSE
    ELSE IF a[i] # b[i] THEN a[i] < b[i]
    ELSE NLtFrom(a, b, i - 1)

NLt(a, b) == IF Len(a) # Len(b) THEN Len(a) < Len(b) ELSE NLtFrom(a, b, Len(a))

\* a * k + c from limb i on, for 0 < k <= Limb
RECURSIVE NMulFrom(_, _, _, _)
NMulFrom(a, k, i, c) ==
    IF i > Len(a) THEN (IF c = 0 THEN <<>> ELSE <<c>>)
    ELSE LET p == a[i] * k + c
         IN  <<p % Limb>> \o NMulFrom(a, k, i + 1, p \div Limb)

NMulSmall(a, k) == IF k = 0 THEN <<>> ELSE NMulFrom(a, k, 1, 0)

\* a * Limb^j
NShiftLimbs(a, j) == IF a = <<>> THEN <<>> ELSE [i \in 1..j |-> 0] \o a

\* a * k for 0 <= k < Limb^2
NMulInt(a, k) ==
    NAdd(NMulSmall(a, k % Limb), NShiftLimbs(NMulSmall(a, k \div Limb), 1))

\* a * 2^bits
NShl(a, bits) == NShiftLimbs(NMulSmall(a, 2^(bits % LimbBits)), bits \div LimbBits)

\* long division by b, 0 < b <= 2 * Limb, from limb i down with remainder r
RECURSIVE NDivFrom(_, _, _, _)
NDivFrom(a, b, i, r) ==
    IF i = 0 THEN [q |-> <<>>, r |-> r]
    ELSE LET cur == r * Limb + a[i]
             rest == NDivFrom(a, b, i - 1, cur % b)
         IN  [q |-> Append(rest.q, cur \div b), r |-> rest.r]

NDivSmall(a, b) ==
    LET d == NDivFrom(a, b, Len(a), 0) IN [q |-> NTrim(d.q), r |-> d.r]

\* floor(a / 2^bits)
NShr(a, bits) ==
    IF bits \div LimbBits >= Len(a) THEN <<>>
    ELSE NDivSmall(SubSeq(a, bits \div LimbBits + 1, Len(a)),
                   2^(bits % LimbBits)).q

RECURSIVE BitLen(_)
BitLen(x) == IF x = 0 THEN 0 ELSE 1 + BitLen(x \div 2)

NBitLen(a) ==
    IF a = <<>> THEN 0 ELSE LimbBits * (Len(a) - 1) + BitLen(a[Len(a)])

\* number of trailing zero bits, for x > 0 and a # 0
RECURSIVE TrailingZeros(_)
TrailingZeros(x) == IF x % 2 = 1 THEN 0 ELSE 1 + TrailingZeros(x \div 2)

RECURSIVE NTrailingZeros(_)
NTrailingZeros(a) ==
    IF a[1] = 0 THEN LimbBits + NTrailingZeros(Tail(a)) ELSE TrailingZeros(a[1])

\* ------------------------------------------------------------ binary64

\* The number (-1)^neg * n * 2^e in canonical form: e = 0 for an integer,
\* otherwise e < 0 and n is odd.
Dyadic(neg, n, e) ==
    IF n = <<>> THEN [neg |-> FALSE, n |-> <<>>, e |-> 0]
    ELSE IF e >= 0 THEN [neg |-> neg, n |-> NShl(n, e), e |-> 0]
    ELSE LET s == Min(NTrailingZeros(n), -e)
         IN  [neg |-> neg, n |-> NShr(n, s), e |-> e + s]

\* a Python int
DInt(x) == Dyadic(x < 0, NFromInt(Abs(x)), 0)

DNeg(x) == IF x.n = <<>> THEN x ELSE [x EXCEPT !.neg = ~@]

\* exact sum, difference, product with an int k >= 0, and order
DAdd(x, y) ==
    LET e == Min(x.e, y.e)
        a == NShl(x.n, x.e - e)
        b == NShl(y.n, y.e - e)
    IN  IF x.neg = y.neg THEN Dyadic(x.neg, NAdd(a, b), e)
        ELSE IF NLt(a, b) THEN Dyadic(y.neg, NSub(b, a), e)
        ELSE Dyadic(x.neg, NSub(a, b), e)

DSub(x, y) == DAdd(x, DNeg(y))
DMulInt(x, k) == Dyadic(x.neg, NMulInt(x.n, k), x.e)
DLt(x, y) == DSub(x, y).neg
DLe(x, y) == ~DLt(y, x)
DMax(x, y) == IF DLt(x, y) THEN y ELSE x

\* significant bits of a binary64
Precision == 53

\* round to nearest, ties to even, to Precision significant bits
Round(x) ==
    LET t == NBitLen(x.n) - Precision IN
    IF t <= 0 THEN x
    ELSE LET q == NShr(x.n, t)
             rem == NSub(x.n, NShl(q, t))
             half == NShl(<<1>>, t - 1)
             up == NLt(half, rem) \/ (rem = half /\ q[1] % 2 = 1)
         IN  Dyadic(x.neg, IF up THEN NAdd(q, <<1>>) ELSE q, x.e + t)

\* limbs of quotient computed below the binary point before rounding
GuardLimbs == 5

\* x / b (true division) for an int 0 < b <= 2 * Limb: the quotient to
\* GuardLimbs limbs and a sticky bit for the remainder, rounded
TrueDiv(x, b) ==
    LET d == NDivSmall(NShiftLimbs(x.n, GuardLimbs), b)
        sticky == IF d.r = 0 THEN 0 ELSE 1
    IN  Round(Dyadic(x.neg, NAdd(NMulSmall(d.q, 2), NFromInt(sticky)),
                     x.e - GuardLimbs * LimbBits - 1))

\* x + y, x - y, and x * k for an int 0 <= k < Limb^2, on floats or ints
\* below 2^Precision (on which rounding changes nothing)
FAdd(x, y) == Round(DAdd(x, y))
FSub(x, y) == Round(DSub(x, y))
FMul(x, k) == Round(DMulInt(x, k))

\* int(x): truncation toward zero
Trunc(x) ==
    LET m == NToInt(NShr(x.n, -x.e)) IN IF x.neg THEN -m ELSE m

\* ------------------------------------------------------------ data

SeqsUpTo(S, n) == UNION {[1..k -> S] : k \in 1..n}

TxIn(h, n, s) == [prevout |-> [hash |-> h, n |-> n], nSequence |-> s]
TxOut(v, s) == [nValue |-> v, scriptPubKey |-> s]
NoTx == [vin |-> <<>>, vout |-> <<>>]

\* sequence numbers at and around the opt-in threshold 0xFFFFFFFF-1
SeqVals == {U32(0), U32Minus(SEQ_MAX, 2), U32Minus(SEQ_MAX, 1), SEQ_MAX}

\* scriptPubKeys: "X" is a script with no address form
\* (CBitcoinAddress.from_scriptPubKey raises), "N1" is a fresh wallet script.
Scripts == {"A", "B", "S1", "S2", "X"}
NonStandard == {"X"}
NoConf == -1

TxIds == {"t1", "t2"}
Mempool == {"t1", "t2", "t3", "t4"}

\* ------------------------------------------------------------ the node

\* transaction ids a mempool transaction spends outputs of
Spends(nd, t) ==
    IF t \in TxIds
    THEN {nd.tx[t].vin[i].prevout.hash : i \in 1..Len(nd.tx[t].vin)}
    ELSE nd.parents[t]

Children(nd, S) == {m \in Mempool : Spends(nd, m) \cap S # {}}

RECURSIVE Reach(_, _, _)
Reach(nd, S, k) ==
    IF k = 0 THEN S ELSE Reach(nd, S \cup Children(nd, S), k - 1)

\* getdescendants: the in-mempool descendants of t (t itself excluded)
GetDescendants(nd, t) == Reach(nd, Children(nd, {t}), Cardinality(Mempool))

Acyclic(nd) == \A t \in Mempool : t \notin GetDescendants(nd, t)

\* getdescendants <txid> true: descendant id -> its modified fee
DescendantEntries(nd, t) ==
    [x \in GetDescendants(nd, t) |-> nd.modifiedfee[x]]

\* ------------------------------------------------------------ scenarios

ArgOk == [hex |-> TRUE, nbytes |-> TXID_LEN]
ArgForms == {ArgOk, [hex |-> FALSE, nbytes |-> TXID_LEN],
             [hex |-> TRUE, nbytes |-> TXID_LEN - 1]}

BaseArgs == [txid1 |-> ArgOk, txid2 |-> ArgOk, dryrun |-> FALSE, optin |-> FALSE]

BaseTx1 == [vin |-> <<TxIn("c1", 0, U32(0))>>,
            vout |-> <<TxOut(5, "A"), TxOut(3, "S1")>>]
BaseTx2 == [vin |-> <<TxIn("c2", 0, U32(0))>>,
            vout |-> <<TxOut(2, "A"), TxOut(1, "B"), TxOut(4, "S2")>>]

BaseNode ==
    [wallet |-> TxIds,
     tx |-> [t \in TxIds |-> IF t = "t1" THEN BaseTx1 ELSE BaseTx2],
     confirmations |-> [t \in TxIds |-> 0],
     mine |-> {"S1", "S2"},
     parents |-> [t \in Mempool \ TxIds |-> {}],
     modifiedfee |-> [t \in Mempool |-> 1],
     inmempool |-> TxIds,
     size1 |-> 2, size2 |-> 2, new_size |-> 2, final_size |-> 2,
     fund_ok |-> TRUE, fund_extra |-> 0, fund_fee |-> 2, fund_change |-> 3,
     fund_pos |-> "last", change_script |-> "N1",
     sign1_ok |-> TRUE, sign2_ok |-> TRUE, send_ok |-> TRUE,
     relayfee |-> 0]

Base == [args |-> BaseArgs, node |-> BaseNode]

\* command lines, wallet membership and confirmation counts
ControlWorlds ==
    {[Base EXCEPT !.args = [txid1 |-> a1, txid2 |-> a2, dryrun |-> d, optin |-> o],
                  !.node.wallet = w,
                  !.node.confirmations = c] :
        a1 \in ArgForms, a2 \in ArgForms, d \in BOOLEAN, o \in BOOLEAN,
        w \in SUBSET TxIds, c \in [TxIds -> NoConf..MaxConf]}

\* answers of the node's calls that can fail
RpcWorlds ==
    {[Base EXCEPT !.args.dryrun = d, !.args.optin = o,
                  !.node.inmempool = m,
                  !.node.fund_ok = f, !.node.fund_pos = p, !.node.fund_extra = e,
                  !.node.sign1_ok = s1, !.node.sign2_ok = s2,
                  !.node.send_ok = b] :
        d \in BOOLEAN, o \in BOOLEAN, m \in SUBSET TxIds, f \in BOOLEAN,
        p \in {"none", "first", "last"}, e \in 0..MaxExtra,
        s1 \in BOOLEAN, s2 \in BOOLEAN, b \in BOOLEAN}

\* input lists: every input's sequence number
VinOf(t, seqs) ==
    [i \in 1..Len(seqs) |->
        TxIn(IF t = "t1" THEN "c1" ELSE "c2", i - 1, seqs[i])]

VinWorlds ==
    {[Base EXCEPT !.args.optin = o,
                  !.node.tx["t1"].vin = VinOf("t1", q1),
                  !.node.tx["t2"].vin = VinOf("t2", q2)] :
        o \in BOOLEAN,
        q1 \in SeqsUpTo(SeqVals, MaxVin), q2 \in SeqsUpTo(SeqVals, MaxVin)}

\* output lists of either transaction, and which scripts the wallet owns
VoutLists == SeqsUpTo({TxOut(v, s) : v \in 1..MaxValue, s \in Scripts}, MaxVout)

VoutWorlds ==
    {[Base EXCEPT !.node.tx[t].vout = vo, !.node.fund_pos = p] :
        t \in TxIds, vo \in VoutLists, p \in {"first", "last"}}
    \cup
    {[Base EXCEPT !.node.mine = m, !.node.fund_pos = p] :
        m \in SUBSET (Scripts \ NonStandard), p \in {"none", "first", "last"}}

\* who spends whom in the mempool
ChainWorlds ==
    {w \in
        {[Base EXCEPT !.node.tx["t1"].vin[1].prevout.hash = h1,
                      !.node.tx["t2"].vin[1].prevout.hash = h2,
                      !.node.parents = [t \in Mempool \ TxIds |->
                                            IF t = "t3" THEN p3 ELSE p4],
                      !.node.fund_extra = e] :
            h1 \in {"c1", "t2", "t3", "t4"}, h2 \in {"c2", "t1", "t3", "t4"},
            p3 \in SUBSET TxIds, p4 \in SUBSET {"t1", "t2", "t3"},
            e \in 0..MaxExtra} :
        Acyclic(w.node)}

\* fees, sizes and the funded amounts; t3 spends an output of t1, and tx2
\* keeps its size
FeeWorlds ==
    {[Base EXCEPT !.node.parents["t3"] = {"t1"},
                  !.node.modifiedfee = [t \in Mempool |->
                        IF t = "t1" THEN f1 ELSE IF t = "t2" THEN f2 ELSE f3],
                  !.node.size1 = s1, !.node.new_size = sn,
                  !.node.fund_fee = ff, !.node.fund_change = fc,
                  !.node.relayfee = rf] :
        f1 \in 0..MaxFee, f2 \in {0, 1}, f3 \in {0, 1},
        s1 \in 1..MaxSize, sn \in 1..MaxSize,
        ff \in {0, MaxFee}, fc \in 1..MaxChange,
        rf \in {0, KB}}

\* sizes and relay feerates (satoshis per 1000 bytes) of the bandwidth fee;
\* the funded change is size * feerate / 1000 rounded down, or one more
RelayWorlds ==
    {[Base EXCEPT !.args.dryrun = d,
                  !.node.modifiedfee = [t \in Mempool |-> 0],
                  !.node.new_size = sn, !.node.final_size = sn,
                  !.node.fund_change = (sn * rf) \div KB + c,
                  !.node.relayfee = rf] :
        d \in BOOLEAN,
        sn \in (1..MaxRelaySize) \cup {KB + k : k \in 1..MaxRelaySize},
        rf \in {KB, 3 * KB, 5 * KB}, c \in {0, 1}}


\* ------------------------------------------------------------ the script

VARIABLES
    args,             \* parsed command line
    node,             \* the bitcoind node the script talks to
    pc,               \* stage of the script about to run
    outcome,          \* "running", "ok", or the error the run ended with
    txinfo1, txinfo2, \* 'confirmations' of getrawtransaction (NoConf: no key)
    tx1, tx2,         \* the two original transactions
    outputs,          \* dict scriptPubKey -> value, in insertion order
    change_txout,     \* scripts the wallet reported as its own
    queries,          \* number of validateaddress calls made
    tx1_fees, tx2_fees,
    descendants,      \* descendants_tx1 after the merge: id -> modified fee
    descendant_fees,
    new_tx,           \* the replacement
    new_tx_fee,
    changepos,
    new_tx_size,
    min_relay_fee,
    float_nvalue,     \* the change nValue is a Python float
    sent,             \* number of sendrawtransaction calls made
    stdout            \* what was printed: "tx", "rawhex", "txid"

vars == <<args, node, pc, outcome, txinfo1, txinfo2, tx1, tx2, outputs,
          change_txout, queries, tx1_fees, tx2_fees, descendants,
          descendant_fees, new_tx, new_tx_fee, changepos, new_tx_size,
          min_relay_fee, float_nvalue, sent, stdout>>

\* the run starts in a scenario of the family W
Start(W) == \E w \in W : args = w.args /\ node = w.node

Init ==
    /\ \/ Start(ControlWorlds)
       \/ Start(RpcWorlds)
       \/ Start(VinWorlds)
       \/ Start(VoutWorlds)
       \/ Start(ChainWorlds)
       \/ Start(FeeWorlds)
       \/ Start(RelayWorlds)
    /\ pc = "parse"
    /\ outcome = "running"
    /\ txinfo1 = NoConf /\ txinfo2 = NoConf
    /\ tx1 = NoTx /\ tx2 = NoTx
    /\ outputs = <<>>
    /\ change_txout = <<>>
    /\ queries = 0
    /\ tx1_fees = 0 /\ tx2_fees = 0
    /\ descendants = [x \in {} |-> 0]
    /\ descendant_fees = 0
    /\ new_tx = NoTx
    /\ new_tx_fee = DInt(0)
    /\ changepos = -1
    /\ new_tx_size = 0
    /\ min_relay_fee = 0
    /\ float_nvalue = FALSE
    /\ sent = 0
    /\ stdout = <<>>

\* the run ends with error e (parser.error, parser.exit, a failed assert or
\* an uncaught exception)
Exit(e) == pc' = "exit" /\ outcome' = e
Goto(stage) == pc' = stage /\ outcome' = outcome

\* ---- lines 52-64: parse the two txids

ValidTxid(a) == a.hex /\ a.nbytes = TXID_LEN

Parse ==
    /\ pc = "parse"
    /\ IF ValidTxid(args.txid1) /\ ValidTxid(args.txid2)
       THEN Goto("gettransaction")
       ELSE Exit("InvalidIdentifier")
    /\ UNCHANGED <<args, node, txinfo1, txinfo2, tx1, tx2, outputs,
                   change_txout, queries, tx1_fees, tx2_fees, descendants,
                   descendant_fees, new_tx, new_tx_fee, changepos,
                   new_tx_size, min_relay_fee, float_nvalue, sent, stdout>>

\* ---- lines 66-70: both transactions are in the wallet

GetTransaction ==
    /\ pc = "gettransaction"
    /\ IF TxIds \subseteq node.wallet
       THEN Goto("fetch")
       ELSE Exit("NotInWallet")
    /\ UNCHANGED <<args, node, txinfo1, txinfo2, tx1, tx2, outputs,
                   change_txout, queries, tx1_fees, tx2_fees, descendants,
                   descendant_fees, new_tx, new_tx_fee, changepos,
                   new_tx_size, min_relay_fee, float_nvalue, sent, stdout>>

\* ---- lines 72-82: fetch both transactions, refuse mined ones

AlreadyMinedFirstOnly(c1, c2) == c1 # NoConf /\ c1 > 0

AlreadyMined(c1, c2) ==
    \/ c1 # NoConf /\ c1 > 0
    \/ c2 # NoConf /\ c2 > 0

Fetch ==
    /\ pc = "fetch"
    /\ txinfo1' = node.confirmations["t1"]
    /\ txinfo2' = node.confirmations["t2"]
    /\ tx1' = node.tx["t1"]
    /\ tx2' = node.tx["t2"]
    /\ IF AlreadyMined(txinfo1', txinfo2')
       THEN Exit("AlreadyConfirmed")
       ELSE Goto("optin")
    /\ UNCHANGED <<args, node, outputs,
                   change_txout, queries, tx1_fees, tx2_fees, descendants,
                   descendant_fees, new_tx, new_tx_fee, changepos,
                   new_tx_size, min_relay_fee, float_nvalue, sent, stdout>>

\* ---- lines 45-50, 84-86: both transactions opt in to replacement

check_full_rbf_optin_inclusive(tx) ==
    \E i \in 1..Len(tx.vin) :
        ~U32Lt(U32Minus(SEQ_MAX, 1), tx.vin[i].nSequence)

check_full_rbf_optin(tx) ==
    \E i \in 1..Len(tx.vin) :
        U32Lt(tx.vin[i].nSequence, U32Minus(SEQ_MAX, 1))

CheckOptin ==
    /\ pc = "optin"
    /\ IF ~check_full_rbf_optin(tx1) \/ ~check_full_rbf_optin(tx2)
       THEN Exit("NotReplaceable")
       ELSE Goto("consolidate")
    /\ UNCHANGED <<args, node, txinfo1, txinfo2, tx1, tx2, outputs,
                   change_txout, queries, tx1_fees, tx2_fees, descendants,
                   descendant_fees, new_tx, new_tx_fee, changepos,
                   new_tx_size, min_relay_fee, float_nvalue, sent, stdout>>

\* ---- lines 105-121: consolidate the outputs, find the wallet's own

\* from_scriptPubKey succeeds and validateaddress is called
HasAddress(s) == s \notin NonStandard

IsMine(nd, s) == HasAddress(s) /\ s \in nd.mine

ScriptsOf(vouts) == [i \in 1..Len(vouts) |-> vouts[i].scriptPubKey]

ChangeTxout(nd, vouts) ==
    SelectSeq(ScriptsOf(vouts), LAMBDA s : IsMine(nd, s))

HasKey(outs, s) == \E i \in 1..Len(outs) : outs[i].key = s

AccumulateOverwrite(outs, vout) ==
    IF HasKey(outs, vout.scriptPubKey)
    THEN [i \in 1..Len(outs) |->
            IF outs[i].key = vout.scriptPubKey
            THEN [outs[i] EXCEPT !.value = vout.nValue]
            ELSE outs[i]]
    ELSE Append(outs, [key |-> vout.scriptPubKey, value |-> vout.nValue])

\* outputs[vout.scriptPubKey] += vout.nValue, or a new key on KeyError
Accumulate(outs, vout) ==
    IF HasKey(outs, vout.scriptPubKey)
    THEN [i \in 1..Len(outs) |->
            IF outs[i].key = vout.scriptPubKey
            THEN [outs[i] EXCEPT !.value = @ + vout.nValue]
            ELSE outs[i]]
    ELSE Append(outs, [key |-> vout.scriptPubKey, value |-> vout.nValue])

RECURSIVE Consolidated(_, _)
Consolidated(outs, vouts) ==
    IF vouts = <<>> THEN outs
    ELSE Consolidated(Accumulate(outs, Head(vouts)), Tail(vouts))

Consolidate ==
    /\ pc = "consolidate"
    /\ LET vouts == tx1.vout \o tx2.vout IN
        /\ change_txout' = ChangeTxout(node, vouts)
        /\ queries' = Len(SelectSeq(ScriptsOf(vouts), HasAddress))
        /\ outputs' = Consolidated(<<>>, vouts)
    /\ Goto("fees")
    /\ UNCHANGED <<args, node, txinfo1, txinfo2, tx1, tx2,
                   tx1_fees, tx2_fees, descendants,
                   descendant_fees, new_tx, new_tx_fee, changepos,
                   new_tx_size, min_relay_fee, float_nvalue, sent, stdout>>

\* ---- lines 127-147: fees of the originals and of their descendants

old_fees == tx1_fees + tx2_fees

\* descendants_tx1.update(descendants_tx2)
MergeMaps(d1, d2) ==
    [x \in DOMAIN d1 \cup DOMAIN d2 |-> IF x \in DOMAIN d2 THEN d2[x] ELSE d1[x]]

RECURSIVE SumFees(_, _)
SumFees(d, ids) ==
    IF ids = {} THEN 0
    ELSE LET x == CHOOSE y \in ids : TRUE IN d[x] + SumFees(d, ids \ {x})

FeeAccount ==
    /\ pc = "fees"
    /\ IF TxIds \subseteq node.inmempool
       THEN /\ tx1_fees' = node.modifiedfee["t1"]
            /\ tx2_fees' = node.modifiedfee["t2"]
            /\ descendants' = MergeMaps(DescendantEntries(node, "t1"),
                                        DescendantEntries(node, "t2"))
            /\ descendant_fees' = SumFees(descendants', DOMAIN descendants')
            /\ Goto("build")
       ELSE /\ Exit("MempoolEntryUnavailable")
            /\ UNCHANGED <<tx1_fees, tx2_fees, descendants, descendant_fees>>
    /\ UNCHANGED <<args, node, txinfo1, txinfo2, tx1, tx2, outputs,
                   change_txout, queries,
                   new_tx, new_tx_fee, changepos,
                   new_tx_size, min_relay_fee, float_nvalue, sent, stdout>>

\* ---- lines 149-166: first input of each original, consolidated payees

FirstInputsSwapped(t1, t2) == SubSeq(t2.vin, 1, 1) \o SubSeq(t1.vin, 1, 1)

\* new_tx.vin[0:1] + tx2.vin[0:1]
FirstInputs(t1, t2) == SubSeq(t1.vin, 1, 1) \o SubSeq(t2.vin, 1, 1)

\* drop the input that spends an output of a descendant
DropConflicting(vin, desc) ==
    IF vin[2].prevout.hash \in DOMAIN desc THEN <<vin[1]>>
    ELSE IF vin[1].prevout.hash \in DOMAIN desc THEN <<vin[2]>>
    ELSE vin

InChange(change, s) == \E i \in 1..Len(change) : change[i] = s

PayeeOutputs(outs, change) ==
    LET keep == SelectSeq(outs, LAMBDA o : ~InChange(change, o.key)) IN
    [i \in 1..Len(keep) |-> TxOut(DInt(keep[i].value), keep[i].key)]

Build ==
    /\ pc = "build"
    /\ new_tx' = [vin |-> DropConflicting(FirstInputs(tx1, tx2), descendants),
                  vout |-> PayeeOutputs(outputs, change_txout)]
    /\ Goto("fund")
    /\ UNCHANGED <<args, node, txinfo1, txinfo2, tx1, tx2, outputs,
                   change_txout, queries, tx1_fees, tx2_fees, descendants,
                   descendant_fees, new_tx_fee, changepos,
                   new_tx_size, min_relay_fee, float_nvalue, sent, stdout>>

\* ---- lines 168-174: the wallet adds inputs and a change output

ExtraInputs(k) == [i \in 1..k |-> TxIn("w", i - 1, SEQ_MAX)]

\* s with x inserted at 0-based position p
InsertAt(s, p, x) == SubSeq(s, 1, p) \o <<x>> \o SubSeq(s, p + 1, Len(s))

ChangePosition(nd, tx) ==
    CASE nd.fund_pos = "none" -> -1
      [] nd.fund_pos = "first" -> 0
      [] nd.fund_pos = "last" -> Len(tx.vout)

\* fundrawtransaction: the given inputs are kept in place, the wallet's are
\* appended, and the change pays a fresh script of the wallet
FundRawTransaction(nd, tx) ==
    LET pos == ChangePosition(nd, tx) IN
    [tx |-> [vin |-> tx.vin \o ExtraInputs(nd.fund_extra),
             vout |-> IF pos < 0 THEN tx.vout
                      ELSE InsertAt(tx.vout, pos,
                                    TxOut(DInt(nd.fund_change), nd.change_script))],
     fee |-> nd.fund_fee,
     changepos |-> pos]

Fund ==
    /\ pc = "fund"
    /\ IF node.fund_ok
       THEN LET r == FundRawTransaction(node, new_tx) IN
            /\ stdout' = Append(stdout, "tx")
            /\ new_tx' = r.tx
            /\ new_tx_fee' = DInt(r.fee)
            /\ changepos' = r.changepos
            /\ IF r.changepos >= 0
               THEN Goto("sign")
               ELSE Exit("UnsupportedNoChangeCase")
       ELSE /\ Exit("FundingFailed")
            /\ UNCHANGED <<stdout, new_tx, new_tx_fee, changepos>>
    /\ UNCHANGED <<args, node, txinfo1, txinfo2, tx1, tx2, outputs,
                   change_txout, queries, tx1_fees, tx2_fees, descendants,
                   descendant_fees,
                   new_tx_size, min_relay_fee, float_nvalue, sent>>

\* ---- lines 176-184: set every input's sequence number, sign

NewSequence(optin) == IF optin THEN U32(0) ELSE U32Minus(SEQ_MAX, 1)

SetSequencesGivenOnly(vin, optin) ==
    [i \in 1..Len(vin) |->
        IF i <= 2 THEN [vin[i] EXCEPT !.nSequence = NewSequence(optin)]
        ELSE vin[i]]

SetSequences(vin, optin) ==
    [i \in 1..Len(vin) |-> [vin[i] EXCEPT !.nSequence = NewSequence(optin)]]

Sign ==
    /\ pc = "sign"
    /\ new_tx' = [new_tx EXCEPT !.vin = SetSequences(@, args.optin)]
    /\ IF node.sign1_ok
       THEN Goto("adjust")
       ELSE Exit("SigningIncomplete")
    /\ UNCHANGED <<args, node, txinfo1, txinfo2, tx1, tx2, outputs,
                   change_txout, queries, tx1_fees, tx2_fees, descendants,
                   descendant_fees, new_tx_fee, changepos,
                   new_tx_size, min_relay_fee, float_nvalue, sent, stdout>>

\* ---- lines 186-209: raise the fee by lowering the change output

\* max(tx1_fees/len(tx1.serialize()), tx2_fees/len(tx2.serialize()))
MinFeeRate(f1, s1, f2, s2) ==
    DMax(TrueDiv(DInt(f1), s1), TrueDiv(DInt(f2), s2))

\* int(new_tx_size/1000 * float(min_relay_fee))
RelayBwFee(size, relay) == Trunc(FMul(TrueDiv(DInt(size), KB), relay))

DeductFirst(vout, pos, amount) ==
    [vout EXCEPT ![1].nValue = FSub(@, amount)]

\* new_tx.vout[changepos].nValue -= amount
DeductChange(vout, pos, amount) ==
    [vout EXCEPT ![pos + 1].nValue = FSub(@, amount)]

\* lines 189-206 on (new_tx_fee, new_tx.vout)
AdjustFee(fee, vout, pos, required, rate, size, relay) ==
    LET short == DLt(fee, DInt(required))
        vout1 == IF short
                 THEN DeductChange(vout, pos, FSub(DInt(required + 1), fee))
                 ELSE vout
        fee1 == IF short THEN DInt(required) ELSE fee
        low == DLt(TrueDiv(fee1, size), rate)
        d == FSub(FMul(rate, size), fee1)
        vout2 == IF low THEN DeductChange(vout1, pos, d) ELSE vout1
        fee2 == IF low THEN FAdd(fee1, d) ELSE fee1
        relay_bw_fee == DInt(RelayBwFee(size, relay))
    IN  [fee |-> FAdd(fee2, relay_bw_fee),
         vout |-> DeductChange(vout2, pos, relay_bw_fee),
         float |-> low]

ChangeExhaustedBelowZero(v) == DLt(v, DInt(0))

\* new_tx.vout[changepos].nValue <= 0
ChangeExhausted(v) == DLe(v, DInt(0))

Adjust ==
    /\ pc = "adjust"
    /\ min_relay_fee' = node.relayfee
    /\ new_tx_size' = node.new_size
    /\ \E a \in {AdjustFee(new_tx_fee, new_tx.vout, changepos,
                           old_fees + descendant_fees,
                           MinFeeRate(tx1_fees, node.size1, tx2_fees, node.size2),
                           node.new_size, node.relayfee)} :
          /\ new_tx' = [new_tx EXCEPT !.vout = a.vout]
          /\ new_tx_fee' = a.fee
          /\ float_nvalue' = a.float
          /\ IF ChangeExhausted(a.vout[changepos + 1].nValue)
             THEN Exit("InsufficientChangeForFee")
             ELSE Goto("resign")
    /\ UNCHANGED <<args, node, txinfo1, txinfo2, tx1, tx2, outputs,
                   change_txout, queries, tx1_fees, tx2_fees, descendants,
                   descendant_fees, changepos, sent, stdout>>

\* ---- lines 211-218: sign the final transaction

\* a float nValue cannot be serialized (struct.pack "<q")
Resign ==
    /\ pc = "resign"
    /\ IF float_nvalue
       THEN Exit("SerializationError") /\ UNCHANGED new_tx_size
       ELSE IF ~node.sign2_ok
       THEN Exit("SigningIncomplete") /\ UNCHANGED new_tx_size
       ELSE Goto("verify") /\ new_tx_size' = node.final_size
    /\ UNCHANGED <<args, node, txinfo1, txinfo2, tx1, tx2, outputs,
                   change_txout, queries, tx1_fees, tx2_fees, descendants,
                   descendant_fees, new_tx, new_tx_fee, changepos,
                   min_relay_fee, float_nvalue, sent, stdout>>

\* ---- lines 236-240: the replacement conflicts with both originals

Verify ==
    /\ pc = "verify"
    /\ IF tx1.vin[1].prevout # new_tx.vin[1].prevout
       THEN Exit("ConflictInvariantViolated")
       ELSE IF Len(new_tx.vin) < 2
       THEN Exit("IndexError")
       ELSE IF tx2.vin[1].prevout # new_tx.vin[2].prevout
       THEN Exit("ConflictInvariantViolated")
       ELSE Goto("publish")
    /\ UNCHANGED <<args, node, txinfo1, txinfo2, tx1, tx2, outputs,
                   change_txout, queries, tx1_fees, tx2_fees, descendants,
                   descendant_fees, new_tx, new_tx_fee, changepos,
                   new_tx_size, min_relay_fee, float_nvalue, sent, stdout>>

\* ---- lines 242-248: print the transaction, or send it and print its id

ShouldSendAlways(a) == TRUE

ShouldSend(a) == ~a.dryrun

Publish ==
    /\ pc = "publish"
    /\ IF ShouldSend(args)
       THEN /\ sent' = sent + 1
            /\ IF node.send_ok
               THEN stdout' = Append(stdout, "txid") /\ Exit("ok")
               ELSE stdout' = stdout /\ Exit("BroadcastRejected")
       ELSE /\ sent' = sent
            /\ stdout' = Append(stdout, "rawhex")
            /\ Exit("ok")
    /\ UNCHANGED <<args, node, txinfo1, txinfo2, tx1, tx2, outputs,
                   change_txout, queries, tx1_fees, tx2_fees, descendants,
                   descendant_fees, new_tx, new_tx_fee, changepos,
                   new_tx_size, min_relay_fee, float_nvalue>>

Next ==
    \/ Parse
    \/ GetTransaction
    \/ Fetch
    \/ CheckOptin
    \/ Consolidate
    \/ FeeAccount
    \/ Build
    \/ Fund
    \/ Sign
    \/ Adjust
    \/ Resign
    \/ Verify
    \/ Publish

Spec == Init /\ [][Next]_vars

\* ------------------------------------------------------------ properties

OPT_OUT == U32Minus(SEQ_MAX, 1)

\* position of the change output in new_tx.vout
ChangeIndex == changepos + 1
ChangeValue == new_tx.vout[ChangeIndex].nValue

\* the fee adjustment has run
Adjusted == new_tx_size > 0

\* x > 0
Positive(x) == x.n # <<>> /\ ~x.neg

\* C1 as claimed: once the fee adjustment has passed the change-value check,
\* the fee of the replacement is at least old_fees + descendant_fees and its
\* feerate (fee / size) is at least each original's feerate (fee_k / size_k).
C1_FeeAndFeerateFloor ==
    pc = "resign" =>
        /\ DLe(DInt(tx1_fees + tx2_fees + descendant_fees), new_tx_fee)
        /\ DLe(DInt(tx1_fees * new_tx_size), DMulInt(new_tx_fee, node.size1))
        /\ DLe(DInt(tx2_fees * new_tx_size), DMulInt(new_tx_fee, node.size2))

\* descendant sets of the two originals, as the node reports them
NoSharedDescendants ==
    GetDescendants(node, "t1") \cap GetDescendants(node, "t2") = {}

Built == new_tx.vin # <<>>

FirstTwoInputsAreTheOriginals ==
    /\ Len(new_tx.vin) >= 2
    /\ new_tx.vin[1].prevout = tx1.vin[1].prevout
    /\ new_tx.vin[2].prevout = tx2.vin[1].prevout

ConflictCheckFailed == outcome \in {"ConflictInvariantViolated", "IndexError"}

\* C2 as claimed: with no shared descendants the first two inputs of the
\* replacement are the originals' first inputs and the conflict check holds.
C2_NoSharedDescendants ==
    (Built /\ NoSharedDescendants) =>
        FirstTwoInputsAreTheOriginals /\ ~ConflictCheckFailed

\* neither original's first input spends an output of a transaction of the
\* merged descendant set: the direct-conflict guard drops nothing
GuardDropsNothing ==
    /\ tx1.vin[1].prevout.hash \notin
            GetDescendants(node, "t1") \cup GetDescendants(node, "t2")
    /\ tx2.vin[1].prevout.hash \notin
            GetDescendants(node, "t1") \cup GetDescendants(node, "t2")

\* C2 amended: when neither original's first input spends an output of a
\* member of the merged descendant set, the first two inputs of the
\* replacement are the originals' first inputs, in that order, and the
\* conflict check holds.
C2_GuardDropsNothing ==
    (Built /\ GuardDropsNothing) =>
        FirstTwoInputsAreTheOriginals /\ ~ConflictCheckFailed

\* a run with a shared descendant and wallet-added inputs passed the check
C2_Witness ==
    /\ outcome = "ok"
    /\ GuardDropsNothing
    /\ ~NoSharedDescendants
    /\ Len(new_tx.vin) > 2

RECURSIVE TotalPaid(_, _)
TotalPaid(vouts, s) ==
    IF vouts = <<>> THEN 0
    ELSE (IF Head(vouts).scriptPubKey = s THEN Head(vouts).nValue ELSE 0)
         + TotalPaid(Tail(vouts), s)

Paid(s) == \E i \in 1..Len(tx1.vout \o tx2.vout) :
                (tx1.vout \o tx2.vout)[i].scriptPubKey = s

ReportedMine(s) == s \in node.mine \ NonStandard

\* C3: the payee list handed to funding has, for every script the originals
\* pay that the wallet did not report as its own, exactly one output, of the
\* summed value, and no output for any other script.
C3_PayeeList ==
    pc = "fund" =>
        \A s \in Scripts \cup {node.change_script} :
            LET hits == {i \in 1..Len(new_tx.vout) : new_tx.vout[i].scriptPubKey = s}
            IN  IF Paid(s) /\ ~ReportedMine(s)
                THEN /\ Cardinality(hits) = 1
                     /\ \A i \in hits :
                            new_tx.vout[i].nValue =
                                DInt(TotalPaid(tx1.vout \o tx2.vout, s))
                ELSE hits = {}

\* both originals pay one script, and a wallet-owned script is paid too
C3_Witness ==
    /\ pc = "fund"
    /\ \E s \in Scripts :
        /\ ~ReportedMine(s)
        /\ \E i \in 1..Len(tx1.vout) : tx1.vout[i].scriptPubKey = s
        /\ \E i \in 1..Len(tx2.vout) : tx2.vout[i].scriptPubKey = s
    /\ \E s \in Scripts : Paid(s) /\ ReportedMine(s)
    /\ new_tx.vout # <<>>

SignalsOptin(txin) == U32Lt(txin.nSequence, OPT_OUT)

\* the run never got past validation
StoppedAtValidation ==
    /\ pc \in {"parse", "gettransaction", "fetch", "optin", "exit"}
    /\ pc = "exit" =>
          outcome \in {"InvalidIdentifier", "NotInWallet", "AlreadyConfirmed",
                       "NotReplaceable"}

Unconfirmed == ~(txinfo1 > 0) /\ ~(txinfo2 > 0)

\* C4 as claimed: one input of either original that does not signal opt-in
\* ends the run with NotReplaceable before consolidation.
C4_EveryInputMustOptIn ==
    (\/ \E i \in 1..Len(tx1.vin) : ~SignalsOptin(tx1.vin[i])
     \/ \E i \in 1..Len(tx2.vin) : ~SignalsOptin(tx2.vin[i]))
    => /\ StoppedAtValidation
       /\ (pc = "exit" /\ Unconfirmed) => outcome = "NotReplaceable"

Fetched == tx1 # NoTx /\ tx2 # NoTx

\* C4 amended: an original none of whose inputs signals opt-in ends the run
\* with NotReplaceable before consolidation.
C4_SomeInputMustOptIn ==
    (/\ Fetched
     /\ \/ \A i \in 1..Len(tx1.vin) : ~SignalsOptin(tx1.vin[i])
        \/ \A i \in 1..Len(tx2.vin) : ~SignalsOptin(tx2.vin[i]))
    => /\ StoppedAtValidation
       /\ (pc = "exit" /\ Unconfirmed) => outcome = "NotReplaceable"

\* tx1 opts in, no input of the two-input tx2 does, and the run was refused
C4_Witness ==
    /\ outcome = "NotReplaceable"
    /\ \E i \in 1..Len(tx1.vin) : SignalsOptin(tx1.vin[i])
    /\ Len(tx2.vin) = 2
    /\ \A i \in 1..Len(tx2.vin) : tx2.vin[i].nSequence = OPT_OUT

\* C5: a change value <= 0 after the deductions ends the run with
\* InsufficientChangeForFee and nothing is sent; a transaction that was sent
\* or printed has a change output of positive value.
C5_ChangePositive ==
    Adjusted =>
        /\ ~Positive(ChangeValue) =>
              pc = "exit" /\ outcome = "InsufficientChangeForFee" /\ sent = 0
        /\ (sent > 0 \/ outcome = "ok") => Positive(ChangeValue)

\* the deductions brought the change to exactly zero
C5_Witness ==
    /\ outcome = "InsufficientChangeForFee"
    /\ ChangeValue = DInt(0)
    /\ node.fund_fee < tx1_fees + tx2_fees + descendant_fees

\* C6 as claimed: the output the fee adjustment lowers pays the first script
\* of change_txout.
C6_ChangeReusesOwnOutput ==
    (Adjusted /\ change_txout # <<>>) =>
        new_tx.vout[ChangeIndex].scriptPubKey = change_txout[1]

Signed ==
    \/ pc \in {"adjust", "resign", "verify", "publish"}
    \/ /\ pc = "exit"
       /\ outcome \in {"SigningIncomplete", "InsufficientChangeForFee",
                       "SerializationError", "ConflictInvariantViolated",
                       "IndexError", "BroadcastRejected", "ok"}

\* C7: after funding every input of the replacement has sequence number 0
\* with -o and 0xFFFFFFFF-1 without, so that without -o no input signals
\* opt-in.
C7_SequencesOverwritten ==
    Signed =>
        /\ \A i \in 1..Len(new_tx.vin) :
              new_tx.vin[i].nSequence = IF args.optin THEN U32(0) ELSE OPT_OUT
        /\ ~args.optin => \A i \in 1..Len(new_tx.vin) : ~SignalsOptin(new_tx.vin[i])

\* a replacement with a wallet-added input was sent without -o
C7_Witness ==
    /\ outcome = "ok"
    /\ ~args.optin
    /\ Len(new_tx.vin) > 2
    /\ sent = 1

Printed(x) == \E i \in 1..Len(stdout) : stdout[i] = x

\* C8: with -n nothing is ever sent; without -n a successful run sends once
\* and prints the transaction id, not the raw hex.
C8_DryRunNeverSends ==
    /\ args.dryrun => sent = 0
    /\ (~args.dryrun /\ outcome = "ok") =>
          sent = 1 /\ Printed("txid") /\ ~Printed("rawhex")

\* a dry run that succeeded and printed the raw transaction
C8_Witness ==
    /\ args.dryrun
    /\ outcome = "ok"
    /\ Printed("rawhex")

\* C9: a confirmation count of one or more on either original ends the run
\* with AlreadyConfirmed before any ownership query or consolidation.
C9_ConfirmedStopsEarly ==
    (txinfo1 > 0 \/ txinfo2 > 0) =>
        /\ pc = "exit"
        /\ outcome = "AlreadyConfirmed"
        /\ queries = 0
        /\ outputs = <<>>
        /\ change_txout = <<>>
        /\ new_tx = NoTx
        /\ sent = 0

\* only the second original is confirmed
C9_Witness ==
    /\ outcome = "AlreadyConfirmed"
    /\ txinfo1 = 0
    /\ txinfo2 > 0

\* a step of the fee adjustment or of a later stage changes at most the
\* value of the change output
FeeStagesKeepFrame ==
    pc \in {"adjust", "resign", "verify", "publish"} =>
        /\ new_tx'.vin = new_tx.vin
        /\ Len(new_tx'.vout) = Len(new_tx.vout)
        /\ \A i \in 1..Len(new_tx.vout) :
              \/ new_tx'.vout[i] = new_tx.vout[i]
              \/ /\ i = ChangeIndex
                 /\ new_tx'.vout[i].scriptPubKey = new_tx.vout[i].scriptPubKey

\* C10: from the fee adjustment on, the inputs, the number of outputs and
\* every output but the change output stay as funded, and the change output
\* keeps its script.
C10_OnlyChangeValueMoves == [][FeeStagesKeepFrame]_vars

\* the change was lowered next to two payee outputs and the run went on
C10_Witness ==
    /\ pc = "resign"
    /\ Len(new_tx.vout) >= 3
    /\ ChangeIndex > 1
    /\ DLt(ChangeValue, DInt(node.fund_change))
====
